---------------------------- MODULE Spec2Model ----------------------------
(***************************************************************************)
(* Model of the market-breadth pipeline of AStockMonitor                   *)
(* (src/market_api.py): MarketStatsAPI.get_market_stats and the functions  *)
(* it runs, _get_all_stocks_stats, _fetch_batch, _parse_and_count and      *)
(* _get_shanghai_index.                                                    *)
(*                                                                         *)
(* Python values are modelled as follows.  A str is a TLA+ string.  A dict *)
(* is a function from its keys.  An Optional[Dict] is a record with a tag  *)
(* t ("None" or "dict") and, for a dict, the function d.  A float read by  *)
(* float() from a decimal string is the exact decimal [m, k] = m / 10^k    *)
(* (exact for the short decimals of the quote feed), or nan, or +-inf.     *)
(***************************************************************************)
EXTENDS Integers, Sequences, FiniteSets, TLC

(***************************************************************************)
(* Bounds of the model.                                                    *)
(***************************************************************************)
\* number of batches the universe is cut into in one cycle
NumBatches == 3
\* longest response text (in records) over all the record kinds
MaxMixed == 2
\* longest response text (in records) over the end-to-end record kinds
MaxRecords == 4
\* the fields the index record has more or less than the 38 it needs
IndexSlack == 1
\* number of batches of the cycle the pool of ten threads is run on
NumPoolBatches == 12
\* the threads that call get_all_stock_codes at once
NumCallers == 2
\* the cycles each of them runs
MaxCalls == 2
\* the values each for loop of get_all_stock_codes is cut to, where it is cut
RangeCap == 2
\* the monitor_loop threads that toggle_monitor starts
MaxThreads == 2
\* the cycles they begin, all together
MaxCycles == 2

(***************************************************************************)
(* Strings.                                                                *)
(***************************************************************************)
\* s[i-1:j] of Python (indices from 1, both ends included, clipped to s)
Slice(s, i, j) ==
  LET lo == IF i < 1 THEN 1 ELSE i
      hi == IF j > Len(s) THEN Len(s) ELSE j
  IN  IF lo > hi THEN "" ELSE SubSeq(s, lo, hi)

CharAt(s, i) == Slice(s, i, i)

\* needle in s  (Python's substring test)
Contains(s, needle) ==
  \E i \in 1..(Len(s) - Len(needle) + 1) : Slice(s, i, i + Len(needle) - 1) = needle

\* the first index j >= i with s[j] = c, or Len(s)+1 when there is none
RECURSIVE IndexOf(_, _, _)
IndexOf(s, c, i) ==
  IF i > Len(s) THEN Len(s) + 1
  ELSE IF CharAt(s, i) = c THEN i
  ELSE IndexOf(s, c, i + 1)

\* s.split(sep) for a one-character sep: the fields, in order
RECURSIVE SplitFrom(_, _, _)
SplitFrom(s, sep, i) ==
  LET j == IndexOf(s, sep, i)
  IN  IF j > Len(s) THEN << Slice(s, i, Len(s)) >>
      ELSE << Slice(s, i, j - 1) >> \o SplitFrom(s, sep, j + 1)

Split(s, sep) == SplitFrom(s, sep, 1)

(***************************************************************************)
(* re.findall(pattern, text) for the pattern of _parse_and_count: v_, one  *)
(* or more characters other than =, an = and a quote, any characters other *)
(* than a quote, a quote; the groups are the code and the data.            *)
(***************************************************************************)
NoMatch == [ok |-> FALSE, code |-> "", data |-> "", end |-> 0]

\* the match of the pattern that starts at index i, if there is one
MatchAt(text, i) ==
  IF Slice(text, i, i + 1) # "v_" THEN NoMatch
  ELSE LET j == IndexOf(text, "=", i + 2)      \* the code runs up to the first =
       IN  IF j = i + 2 \/ j > Len(text) THEN NoMatch
           ELSE IF CharAt(text, j + 1) # "\"" THEN NoMatch
           ELSE LET k == IndexOf(text, "\"", j + 2)   \* the data runs up to the closing quote
                IN  IF k > Len(text) THEN NoMatch
                    ELSE [ok   |-> TRUE,
                          code |-> Slice(text, i + 2, j - 1),
                          data |-> Slice(text, j + 2, k - 1),
                          end  |-> k]

\* the non-overlapping matches, scanning left to right from index i
RECURSIVE FindAllFrom(_, _)
FindAllFrom(text, i) ==
  IF i > Len(text) THEN << >>
  ELSE LET m == MatchAt(text, i)
       IN  IF m.ok THEN << << m.code, m.data >> >> \o FindAllFrom(text, m.end + 1)
           ELSE FindAllFrom(text, i + 1)

FindAll(text) == FindAllFrom(text, 1)

(***************************************************************************)
(* float(str)                                                              *)
(***************************************************************************)
Digits == {"0", "1", "2", "3", "4", "5", "6", "7", "8", "9"}

DigitVal(c) ==
  CASE c = "0" -> 0 [] c = "1" -> 1 [] c = "2" -> 2 [] c = "3" -> 3 [] c = "4" -> 4
    [] c = "5" -> 5 [] c = "6" -> 6 [] c = "7" -> 7 [] c = "8" -> 8 [] c = "9" -> 9

AllDigits(s) == \A i \in 1..Len(s) : CharAt(s, i) \in Digits

\* the number a string of digits denotes ("" denotes 0)
RECURSIVE DigitsVal(_)
DigitsVal(s) ==
  IF Len(s) = 0 THEN 0
  ELSE 10 * DigitsVal(Slice(s, 1, Len(s) - 1)) + DigitVal(CharAt(s, Len(s)))

ValueError == [kind |-> "ValueError", m |-> 0, k |-> 0]
NaN        == [kind |-> "nan", m |-> 0, k |-> 0]
Inf(sign)  == [kind |-> "inf", m |-> sign, k |-> 0]
Num(m, k)  == [kind |-> "num", m |-> m, k |-> k]

\* float() of an unsigned body: nan, inf, or digits with an optional point
FloatUnsigned(s, sign) ==
  IF s = "nan" THEN NaN
  ELSE IF s = "inf" THEN Inf(sign)
  ELSE LET p    == IndexOf(s, ".", 1)
           ip   == Slice(s, 1, p - 1)
           fp   == Slice(s, p + 1, Len(s))
       IN  IF ~AllDigits(ip) \/ ~AllDigits(fp) \/ Len(ip) + Len(fp) = 0
           THEN ValueError
           ELSE Num(sign * DigitsVal(ip \o fp), Len(fp))

\* float(s): an optional sign, then the body
Float(s) ==
  IF Len(s) = 0 THEN ValueError
  ELSE IF CharAt(s, 1) = "-" THEN FloatUnsigned(Slice(s, 2, Len(s)), -1)
  ELSE IF CharAt(s, 1) = "+" THEN FloatUnsigned(Slice(s, 2, Len(s)), 1)
  ELSE FloatUnsigned(s, 1)

RECURSIVE Pow10(_)
Pow10(k) == IF k = 0 THEN 1 ELSE 10 * Pow10(k - 1)

\* pct >= t/10 and pct <= t/10 for a threshold given in tenths; every
\* comparison with nan is false
GeTenths(p, t) ==
  CASE p.kind = "num" -> p.m * 10 >= t * Pow10(p.k)
    [] p.kind = "inf" -> p.m > 0
    [] OTHER -> FALSE

LeTenths(p, t) ==
  CASE p.kind = "num" -> p.m * 10 <= t * Pow10(p.k)
    [] p.kind = "inf" -> p.m < 0
    [] OTHER -> FALSE

GtZero(p) == p.kind \in {"num", "inf"} /\ p.m > 0
LtZero(p) == p.kind \in {"num", "inf"} /\ p.m < 0


(***************************************************************************)
(* _parse_and_count                                                        *)
(***************************************************************************)
CounterKeys ==
  {"up_count", "down_count", "flat_count", "up_3pct", "down_3pct",
   "up_5pct", "down_5pct", "limit_up", "limit_down", "total"}

\* the dict _parse_and_count starts from
ZeroStats == [key \in CounterKeys |-> 0]

\* stats[key] = 1 in place of stats[key] += 1
BumpAssign(stats, key) == [stats EXCEPT ![key] = 1]

\* stats[key] += 1
Bump(stats, key) == [stats EXCEPT ![key] = @ + 1]

Skip == [kind |-> "skip", m |-> 0, k |-> 0]

\* the guards of the loop body reading fields[31] in place of fields[32]
RecordPctField31(code, data) ==
  IF data = "" \/ data = "1" \/ Contains(code, "pv_none_match") THEN Skip
  ELSE LET fields == Split(data, "~")
       IN  IF Len(fields) < 33 THEN Skip
           ELSE LET pct_str == fields[32]
                IN  IF pct_str = "" THEN Skip ELSE Float(pct_str)

\* the guards of the loop body: the float of field 32 of a record that
\* passes them, Skip for a record a `continue` drops, ValueError for one
\* the except clause drops
RecordPct(code, data) ==
  IF data = "" \/ data = "1" \/ Contains(code, "pv_none_match") THEN Skip
  ELSE LET fields == Split(data, "~")
       IN  IF Len(fields) < 33 THEN Skip
           ELSE LET pct_str == fields[33]        \* fields[32], counted from 0
                IN  IF pct_str = "" THEN Skip ELSE Float(pct_str)

\* a record whose field 32 is not a number is counted too
CountedWithErrors(p) == p.kind # "skip"

Counted(p) == p.kind \notin {"skip", "ValueError"}

\* the tests of the three if/elif chains
IsUp(pct)        == GtZero(pct)
IsDown(pct)      == LtZero(pct)
InUp3(pct)       == GeTenths(pct, 30)
InDown3(pct)     == LeTenths(pct, -30)
InUp5(pct)       == GeTenths(pct, 50)
InDown5(pct)     == LeTenths(pct, -50)
InLimitUpAtTen(pct) == GeTenths(pct, 100)
InLimitUp(pct)   == GeTenths(pct, 99)
InLimitDown(pct) == LeTenths(pct, -99)

\* the direction chain without its else: a record with pct 0 is in total only
CountDirectionWithoutFlat(stats, pct) ==
  IF IsUp(pct) THEN Bump(stats, "up_count")
  ELSE IF IsDown(pct) THEN Bump(stats, "down_count")
  ELSE stats

\* the direction chain: if pct > 0 / elif pct < 0 / else
CountDirection(stats, pct) ==
  IF IsUp(pct) THEN Bump(stats, "up_count")
  ELSE IF IsDown(pct) THEN Bump(stats, "down_count")
  ELSE Bump(stats, "flat_count")

\* the magnitude tests as one if/elif chain: a record counts in its
\* highest bucket only
CountMagnitudeTiered(stats, pct) ==
  IF InLimitUp(pct) THEN Bump(stats, "limit_up")
  ELSE IF InLimitDown(pct) THEN Bump(stats, "limit_down")
  ELSE IF InUp5(pct) THEN Bump(stats, "up_5pct")
  ELSE IF InDown5(pct) THEN Bump(stats, "down_5pct")
  ELSE IF InUp3(pct) THEN Bump(stats, "up_3pct")
  ELSE IF InDown3(pct) THEN Bump(stats, "down_3pct")
  ELSE stats

\* the three magnitude chains, each an if/elif of its own
CountMagnitude(stats, pct) ==
  LET s3 == IF InUp3(pct) THEN Bump(stats, "up_3pct")
            ELSE IF InDown3(pct) THEN Bump(stats, "down_3pct") ELSE stats
      s5 == IF InUp5(pct) THEN Bump(s3, "up_5pct")
            ELSE IF InDown5(pct) THEN Bump(s3, "down_5pct") ELSE s3
  IN  IF InLimitUp(pct) THEN Bump(s5, "limit_up")
      ELSE IF InLimitDown(pct) THEN Bump(s5, "limit_down") ELSE s5

\* one iteration of `for code, data in matches`
CountRecord(stats, code, data) ==
  LET pct == RecordPct(code, data)
  IN  IF ~Counted(pct) THEN stats
      ELSE CountMagnitude(CountDirection(Bump(stats, "total"), pct), pct)

\* the loop over matches[i..], from the counters stats
RECURSIVE CountFrom(_, _, _)
CountFrom(stats, matches, i) ==
  IF i > Len(matches) THEN stats
  ELSE CountFrom(CountRecord(stats, matches[i][1], matches[i][2]), matches, i + 1)

\* the counters of a sequence of (code, data) matches
CountMatches(matches) == CountFrom(ZeroStats, matches, 1)

ParseAndCount(text) == CountMatches(FindAll(text))


(***************************************************************************)
(* The upstream wire format: the records of a response text.  A record is  *)
(* described by its kind, its percentage change th in thousandths of a     *)
(* percent, and its number nf of fields; RecordText writes it out as the   *)
(* feed does, v_<code>="<f0>~<f1>~...";                                    *)
(***************************************************************************)
DigitStr(d) ==
  CASE d = 0 -> "0" [] d = 1 -> "1" [] d = 2 -> "2" [] d = 3 -> "3" [] d = 4 -> "4"
    [] d = 5 -> "5" [] d = 6 -> "6" [] d = 7 -> "7" [] d = 8 -> "8" [] d = 9 -> "9"

\* the decimal numeral of a natural number
RECURSIVE NatStr(_)
NatStr(n) == IF n < 10 THEN DigitStr(n) ELSE NatStr(n \div 10) \o DigitStr(n % 10)

\* the fraction digits of f thousandths, without trailing zeros but at
\* least one digit: 0 -> "0", 900 -> "9", 890 -> "89", 999 -> "999"
FracStr(f) ==
  IF f % 100 = 0 THEN DigitStr(f \div 100)
  ELSE IF f % 10 = 0 THEN DigitStr(f \div 100) \o DigitStr((f \div 10) % 10)
  ELSE DigitStr(f \div 100) \o DigitStr((f \div 10) % 10) \o DigitStr(f % 10)

\* the feed's numeral of th thousandths: 12000 -> "12.0", -9890 -> "-9.89"
PctStr(th) ==
  LET a == IF th < 0 THEN -th ELSE th
  IN  (IF th < 0 THEN "-" ELSE "") \o NatStr(a \div 1000) \o "." \o FracStr(a % 1000)

\* n fields "1", each followed by a tilde
RECURSIVE Filler(_)
Filler(n) == IF n = 0 THEN "" ELSE "1~" \o Filler(n - 1)

\* n more fields "1", each preceded by a tilde
RECURSIVE Trailer(_)
Trailer(n) == IF n = 0 THEN "" ELSE "~1" \o Trailer(n - 1)

\* the value of a record of nf >= 1 fields whose field 32, when it has one,
\* is pct
FieldsData(nf, pct) ==
  IF nf <= 32 THEN "1" \o Trailer(nf - 1)
  ELSE Filler(32) \o pct \o Trailer(nf - 33)

Rec(kind, th, nf) == [kind |-> kind, th |-> th, nf |-> nf]

RecordCode(r) == IF r.kind = "nomatch" THEN "pv_none_match" ELSE "sh600000"

RecordData(r) ==
  CASE r.kind = "empty"  -> ""
    [] r.kind = "one"    -> "1"
    [] r.kind = "nopct"  -> FieldsData(r.nf, "")
    [] r.kind = "badpct" -> FieldsData(r.nf, "abc")
    [] OTHER             -> FieldsData(r.nf, PctStr(r.th))

RecordText(r) == "v_" \o RecordCode(r) \o "=\"" \o RecordData(r) \o "\";\n"

RECURSIVE ResponseText(_)
ResponseText(rs) ==
  IF Len(rs) = 0 THEN "" ELSE RecordText(Head(rs)) \o ResponseText(Tail(rs))

\* the percentage changes of the valid records of the inputs
Pcts ==
  {12000, 9900, 9890, 5000, 4999, 3000, 2999, 0,
   -2999, -3000, -4999, -5000, -9890, -9900, -10000}

\* the records that count: field 32 is a number; 33 fields or more
ValidRecs == {Rec("valid", th, 33) : th \in Pcts} \cup {Rec("valid", 12000, 35)}

\* the records that do not: empty value, value "1", no-match key (on an
\* otherwise valid value), 32 fields, empty field 32, field 32 not a number
MalformedRecs ==
  {Rec("empty", 0, 0), Rec("one", 0, 1), Rec("nomatch", 12000, 33),
   Rec("short", 12000, 32), Rec("nopct", 0, 33), Rec("nopct", 0, 34),
   Rec("badpct", 0, 33)}

\* the records of the end-to-end case
EndToEndRecs ==
  {Rec("valid", 12000, 33), Rec("valid", -10000, 33), Rec("valid", 0, 33),
   Rec("short", 12000, 32)}

SeqsUpTo(S, n) == UNION {[1..len -> S] : len \in 0..n}

\* the response texts of the model, as sequences of records
Responses ==
  SeqsUpTo(ValidRecs \cup MalformedRecs, MaxMixed) \cup SeqsUpTo(EndToEndRecs, MaxRecords)

(***************************************************************************)
(* State.                                                                  *)
(***************************************************************************)
VARIABLES
  recs,      \* the records the response text of _parse_and_count was written from
  text,      \* _parse_and_count: its argument
  matches,   \* _parse_and_count: the list re.findall returned
  pos,       \* _parse_and_count: the position of the for loop in matches
  pstats,    \* _parse_and_count: its local dict stats
  ppc,       \* _parse_and_count: "start", "loop" or "done"
  presult    \* _parse_and_count: the dict it returned

pvars == << recs, text, matches, pos, pstats, ppc, presult >>

VARIABLES
  resp,      \* per batch, the response its request got (unset before the request)
  fut,       \* _get_all_stocks_stats: per batch, the future of its _fetch_batch task
  order,     \* _get_all_stocks_stats: the batches in the order as_completed yielded them
  stats,     \* _get_all_stocks_stats: its local dict stats, the accumulator
  spc,       \* _get_all_stocks_stats: "idle", "loop", "unwind" or "done"
  sexc,      \* _get_all_stocks_stats: the exception that left the loop, if any
  future_stats,  \* get_market_stats: the future of the _get_all_stocks_stats task
  iresp,     \* the response the index request got (unset before the request)
  future_index,  \* get_market_stats: the future of the _get_shanghai_index task
  gstats,    \* get_market_stats: its local stats, future_stats.result()
  gpc,       \* get_market_stats: "idle", "wait_stats", "wait_index", "exit" or "done"
  gout       \* get_market_stats: how the call ended, a return or a raise

avars == << resp, fut, order, stats, spc, sexc, future_stats, iresp, future_index,
            gstats, gpc, gout >>

VARIABLES
  ranges,        \* the ranges get_all_stock_codes runs through
  stock_codes,   \* MarketStatsAPI._stock_codes, held as the ranges whose for loops
                 \* have appended to it
  codes_loaded,  \* MarketStatsAPI._codes_loaded
  cpc,           \* per caller, its position in _get_all_stocks_stats
  codes,         \* per caller, get_all_stock_codes: its local list codes, held likewise
  rangeno,       \* per caller, get_all_stock_codes: the for loop it is to run next
  all_codes,     \* per caller, _get_all_stocks_stats: its local all_codes, held likewise
  batches,       \* per caller, _get_all_stocks_stats: its local list batches, held as
                 \* the values of i its slices all_codes[i:i + batch_size] start at
  futures,       \* per caller, _get_all_stocks_stats: per submitted task, the place
                 \* in batches of the batch it was given
  ncalls         \* per caller, the calls of get_all_stock_codes it has made

cvars == << ranges, stock_codes, codes_loaded, cpc, codes, rangeno, all_codes, batches,
            futures, ncalls >>

VARIABLES
  is_running,    \* self.is_running
  mpc,           \* per monitor_loop thread, its position
  mcycles,       \* the cycles the monitor_loop threads have begun, all together
  mnow,          \* per monitor_loop thread, the time its cycle began at
  mstats,        \* per monitor_loop thread, fetch_and_save: its local stats (None
                 \* outside the call)
  df,            \* per monitor_loop thread, save_stats: its local df, the rows read
                 \* (empty outside the call)
  store,         \* the rows of the Excel file of the month
  time_labels,   \* self.time_labels
  data,          \* self.data
  status_var     \* self.status_var, as set by the last callback handed to the UI:
                 \* "ready", "stopped", "initialising", "fetching", "updated",
                 \* "failed: no response" or "error", for the texts of the code

mvars == << is_running, mpc, mcycles, mnow, mstats, df, store, time_labels, data,
            status_var >>

vars == << pvars, avars, cvars, mvars >>

(***************************************************************************)
(* _parse_and_count, one loop iteration per step.                          *)
(***************************************************************************)
ParseInitOn(rs) ==
  /\ recs = rs
  /\ text = ResponseText(rs)
  /\ matches = << >>
  /\ pos = 1
  /\ pstats = ZeroStats
  /\ ppc = "start"
  /\ presult = ZeroStats

\* stats = {...}; matches = re.findall(pattern, text)
ParseStart ==
  /\ ppc = "start"
  /\ matches' = FindAll(text)
  /\ pstats' = ZeroStats
  /\ pos' = 1
  /\ ppc' = "loop"
  /\ UNCHANGED << recs, text, presult, avars, cvars, mvars >>

\* one iteration of the for loop
ParseRecord ==
  /\ ppc = "loop"
  /\ pos <= Len(matches)
  /\ pstats' = CountRecord(pstats, matches[pos][1], matches[pos][2])
  /\ pos' = pos + 1
  /\ UNCHANGED << recs, text, matches, ppc, presult, avars, cvars, mvars >>

\* return stats
ParseReturn ==
  /\ ppc = "loop"
  /\ pos > Len(matches)
  /\ presult' = pstats
  /\ ppc' = "done"
  /\ UNCHANGED << recs, text, matches, pos, pstats, avars, cvars, mvars >>

ParseNext == ParseStart \/ ParseRecord \/ ParseReturn


(***************************************************************************)
(* Python values of the aggregation: Optional[Dict], exceptions, and how a *)
(* call ends.                                                              *)
(***************************************************************************)
None    == [t |-> "None"]
Dict(d) == [t |-> "dict", d |-> d]

\* the truth value of an Optional[Dict]: None and the empty dict are false
Truthy(v) == v.t = "dict" /\ DOMAIN v.d # {}

\* d.get(key, default)
Get(d, key, default) == IF key \in DOMAIN d THEN d[key] ELSE default

\* a.update(b)
Update(a, b) ==
  [key \in DOMAIN a \cup DOMAIN b |-> IF key \in DOMAIN b THEN b[key] ELSE a[key]]

\* what requests.get and float() raise; all are subclasses of Exception
Exceptions == {"Timeout", "ConnectionError", "ValueError"}

Return(v) == [out |-> "return", val |-> v, exc |-> ""]
Raise(e)  == [out |-> "raise", val |-> None, exc |-> e]

\* `except requests.RequestException` in place of `except Exception`
CatchesRequestErrors(e) == e \in {"Timeout", "ConnectionError"}

\* `except Exception` catches e
Catches(e) == e \in Exceptions

\* try: body / except Exception: return handler
TryExcept(body, handler) ==
  IF body.out = "raise" /\ Catches(body.exc) THEN Return(handler) ELSE body

\* what an HTTP request gets: a response text, or an exception
TextResponse(t) == [exc |-> "", text |-> t]
ErrorResponse(e) == [exc |-> e, text |-> ""]
NoResponse == [exc |-> "", text |-> "unset"]

\* a future: pending, running, or done with how its task ended
Pending    == [st |-> "pending", res |-> Return(None)]
Running    == [st |-> "running", res |-> Return(None)]
Done(res)  == [st |-> "done", res |-> res]

\* future.result() of a done future: the task's value, or its exception
\* raised again
Result(future) == future.res

(***************************************************************************)
(* _fetch_batch                                                            *)
(***************************************************************************)
\* the batches of the cycle, by their place in the list batches
Batches == DOMAIN fut

\* the responses a batch request can get
BatchResponses ==
  { ErrorResponse("Timeout"),
    TextResponse(ResponseText(<< Rec("valid", 12000, 33) >>)),
    TextResponse(ResponseText(<< Rec("valid", -10000, 33), Rec("short", 12000, 32),
                                 Rec("valid", 0, 33) >>)) }

\* _fetch_batch without its try/except
FetchBatchUncaught(r) ==
  IF r.exc # "" THEN Raise(r.exc) ELSE Return(Dict(ParseAndCount(r.text)))

\* _fetch_batch on the response r of its request
FetchBatch(r) ==
  TryExcept(IF r.exc # "" THEN Raise(r.exc) ELSE Return(Dict(ParseAndCount(r.text))),
            None)

\* _fetch_batch on each response of the model, computed once
FetchBatchOf == [r \in BatchResponses |-> FetchBatch(r)]

(***************************************************************************)
(* _get_shanghai_index                                                     *)
(***************************************************************************)
\* the value of the index record: nf fields, "1" but for the five read
IndexValue(i, pct) ==
  CASE i = 3 -> "3031.23" [] i = 4 -> "3027.33" [] i = 31 -> "3.9" [] i = 32 -> pct
    [] i = 37 -> "35000000" [] OTHER -> "1"

RECURSIVE IndexFields(_, _, _)
IndexFields(nf, pct, i) ==
  IF i >= nf THEN ""
  ELSE (IF i = 0 THEN "" ELSE "~") \o IndexValue(i, pct) \o IndexFields(nf, pct, i + 1)

IndexText(code, nf, pct) ==
  "v_" \o code \o "=\"" \o IndexFields(nf, pct, 0) \o "\";\n"

\* the responses the index request can get: the record with 38 fields,
\* with 37 fields, with a non-numeric field 32, another record only, an
\* exception
IndexResponses ==
  { TextResponse(IndexText("sh000001", 38, "0.13")),
    TextResponse(IndexText("sh000001", 37, "0.13")),
    TextResponse(IndexText("sh000001", 38, "abc")),
    TextResponse(IndexText("pv_none_match", 38, "0.13")),
    ErrorResponse("Timeout") }

\* the index record with nf fields whose field number at is val
RECURSIVE IndexFieldsWith(_, _, _, _)
IndexFieldsWith(nf, at, val, i) ==
  IF i >= nf THEN ""
  ELSE (IF i = 0 THEN "" ELSE "~") \o (IF i = at THEN val ELSE IndexValue(i, "0.13"))
         \o IndexFieldsWith(nf, at, val, i + 1)

IndexTextWith(code, nf, at, val) ==
  "v_" \o code \o "=\"" \o IndexFieldsWith(nf, at, val, 0) \o "\";\n"

\* the records the index request is answered with when _get_shanghai_index
\* is run on its own: the index or another symbol, some fields more or
\* less than the 38 that are needed, and one field, read or not, holding a
\* number or something else
IndexParams ==
  [code : {"sh000001", "sz000001"},
   nf   : (38 - IndexSlack)..(38 + IndexSlack),
   pos  : {3, 4, 5, 31, 32, 37},
   val  : {"", "abc", "-1.5", "12"}]

IndexInputOf ==
  [p \in IndexParams |-> TextResponse(IndexTextWith(p.code, p.nf, p.pos, p.val))]

\* a text where the index record comes after the record of another symbol
TwoRecordsText ==
  IndexTextWith("sz000001", 38, 3, "12") \o IndexTextWith("sh000001", 38, 3, "12")

IndexInputs ==
  {IndexInputOf[p] : p \in IndexParams}
    \cup {ErrorResponse("Timeout"), ErrorResponse("ConnectionError"),
          TextResponse(""), TextResponse(TwoRecordsText)}

IndexPrefix == "v_sh000001=\""

\* re.search of the index pattern: the value of the first v_sh000001
\* record of the text, if there is one
SearchIndex(t) ==
  LET starts == {i \in 1..Len(t) :
                   /\ Slice(t, i, i + Len(IndexPrefix) - 1) = IndexPrefix
                   /\ IndexOf(t, "\"", i + Len(IndexPrefix)) <= Len(t)}
  IN  IF starts = {} THEN [ok |-> FALSE, data |-> ""]
      ELSE LET i == CHOOSE x \in starts : \A y \in starts : x <= y
               b == i + Len(IndexPrefix)
           IN  [ok |-> TRUE, data |-> Slice(t, b, IndexOf(t, "\"", b) - 1)]

IndexKeys == {"sh_price", "sh_pre_close", "sh_change", "sh_pct", "sh_amount"}

\* fields[36] in place of fields[37]
IndexFieldBeforeAmount(key) ==
  CASE key = "sh_price" -> 3 [] key = "sh_pre_close" -> 4 [] key = "sh_change" -> 31
    [] key = "sh_pct" -> 32 [] key = "sh_amount" -> 36

\* the field each key is read from, counted from 0
IndexField(key) ==
  CASE key = "sh_price" -> 3 [] key = "sh_pre_close" -> 4 [] key = "sh_change" -> 31
    [] key = "sh_pct" -> 32 [] key = "sh_amount" -> 37

\* the body of the try block on a response text
IndexBody(t) ==
  LET match == SearchIndex(t)
      fields == Split(match.data, "~")
  IN  IF match.ok /\ Len(fields) > 37
      THEN LET d == [key \in IndexKeys |-> Float(fields[IndexField(key) + 1])]
           IN  IF \E key \in IndexKeys : d[key].kind = "ValueError"
               THEN Raise("ValueError")
               ELSE Return(Dict(d))
      ELSE Return(Dict(<< >>))

\* _get_shanghai_index on the response r of its request
GetShanghaiIndex(r) ==
  TryExcept(IF r.exc # "" THEN Raise(r.exc) ELSE IndexBody(r.text), Dict(<< >>))

\* _get_shanghai_index on each response of the model, computed once
GetShanghaiIndexOf == [r \in IndexResponses \cup IndexInputs |-> GetShanghaiIndex(r)]

(***************************************************************************)
(* _get_all_stocks_stats                                                   *)
(***************************************************************************)
\* datetime.now().strftime of the cycle
Now == "13:32:38"

\* the dict the accumulator starts from
InitialStats == [key \in CounterKeys \cup {"time"} |-> IF key = "time" THEN Now ELSE 0]

\* stats[key] = batch_stats.get(key, 0) in place of +=
AccumulateAssign(acc, batch_stats) ==
  [key \in DOMAIN acc |->
     IF key # "time" THEN Get(batch_stats, key, 0) ELSE acc[key]]

\* for key in stats: if key != 'time': stats[key] += batch_stats.get(key, 0)
Accumulate(acc, batch_stats) ==
  [key \in DOMAIN acc |->
     IF key # "time" THEN acc[key] + Get(batch_stats, key, 0) ELSE acc[key]]

\* the body of the as_completed loop on the result of one future
AddBatch(acc, batch_stats) ==
  IF Truthy(batch_stats) THEN Accumulate(acc, batch_stats.d) ELSE acc

\* max_workers of the batch pool
MaxWorkers == 10

InFlight == {b \in Batches : fut[b].st = "running"}

\* all_codes, stats, batches, the pool, and one submit per batch
StatsStart ==
  /\ future_stats.st = "running"
  /\ spc = "idle"
  /\ stats' = InitialStats
  /\ fut' = [b \in Batches |-> Pending]
  /\ spc' = "loop"
  /\ UNCHANGED << resp, order, sexc, future_stats, iresp, future_index, gstats, gpc, gout, pvars, cvars, mvars >>

\* a thread of the pool takes the task of batch b whatever the number of
\* tasks that are running
WorkerStartUnbounded(b) ==
  /\ spc # "idle"
  /\ fut[b].st = "pending"
  /\ \A c \in Batches : c < b => fut[c].st # "pending"
  /\ fut' = [fut EXCEPT ![b] = Running]
  /\ UNCHANGED << resp, order, stats, spc, sexc, future_stats, iresp, future_index,
                  gstats, gpc, gout, pvars, cvars, mvars >>

\* a thread of the pool takes the task of batch b: the pool has max_workers
\* threads, each runs one task at a time, and they take the tasks from the
\* queue of the pool in the order of the submits
WorkerStart(b) ==
  /\ spc # "idle"
  /\ fut[b].st = "pending"
  /\ \A c \in Batches : c < b => fut[c].st # "pending"
  /\ Cardinality(InFlight) < MaxWorkers
  /\ fut' = [fut EXCEPT ![b] = Running]
  /\ UNCHANGED << resp, order, stats, spc, sexc, future_stats, iresp, future_index,
                  gstats, gpc, gout, pvars, cvars, mvars >>

\* the task adds its counts to the accumulator of the loop itself
WorkerFinishShared(b, r) ==
  /\ fut[b].st = "running"
  /\ resp' = [resp EXCEPT ![b] = r]
  /\ fut' = [fut EXCEPT ![b] = Done(FetchBatchOf[r])]
  /\ stats' = AddBatch(stats, FetchBatchOf[r].val)
  /\ UNCHANGED << order, spc, sexc, future_stats, iresp, future_index,
                  gstats, gpc, gout, pvars, cvars, mvars >>

\* the request of batch b gets the response r and _fetch_batch ends
WorkerFinish(b, r) ==
  /\ fut[b].st = "running"
  /\ resp' = [resp EXCEPT ![b] = r]
  /\ fut' = [fut EXCEPT ![b] = Done(FetchBatchOf[r])]
  /\ UNCHANGED << order, stats, spc, sexc, future_stats, iresp, future_index,
                  gstats, gpc, gout, pvars, cvars, mvars >>

\* the loop body without its `if batch_stats:`, so that the None of a failed
\* batch raises at batch_stats.get and leaves the loop
ConsumeUnguarded(b) ==
  /\ spc = "loop"
  /\ fut[b].st = "done"
  /\ \A i \in DOMAIN order : order[i] # b
  /\ order' = Append(order, b)
  /\ IF Result(fut[b]).out = "raise" \/ ~Truthy(Result(fut[b]).val)
     THEN /\ sexc' = IF Result(fut[b]).out = "raise" THEN Result(fut[b]).exc
                     ELSE "AttributeError"
          /\ spc' = "unwind"
          /\ stats' = stats
     ELSE /\ stats' = AddBatch(stats, Result(fut[b]).val)
          /\ UNCHANGED << sexc, spc >>
  /\ UNCHANGED << resp, fut, future_stats, iresp, future_index, gstats, gpc, gout, pvars, cvars, mvars >>

\* as_completed yields the done future of batch b; the loop body runs
Consume(b) ==
  /\ spc = "loop"
  /\ fut[b].st = "done"
  /\ \A i \in DOMAIN order : order[i] # b
  /\ order' = Append(order, b)
  /\ IF Result(fut[b]).out = "raise"
     THEN /\ sexc' = Result(fut[b]).exc
          /\ spc' = "unwind"
          /\ stats' = stats
     ELSE /\ stats' = AddBatch(stats, Result(fut[b]).val)
          /\ UNCHANGED << sexc, spc >>
  /\ UNCHANGED << resp, fut, future_stats, iresp, future_index, gstats, gpc, gout, pvars, cvars, mvars >>

\* a return from inside the loop out of a pool that is shut down without
\* waiting: the function returns whatever the tasks are doing
StatsReturnNoWait ==
  /\ spc \in {"loop", "unwind"}
  /\ future_stats' =
       Done(TryExcept(IF spc = "unwind" THEN Raise(sexc) ELSE Return(Dict(stats)), None))
  /\ spc' = "done"
  /\ UNCHANGED << resp, fut, order, stats, sexc, iresp, future_index, gstats, gpc, gout, pvars, cvars, mvars >>

\* the with block ends once every task of the pool has ended; then the
\* function returns stats, or its except clause handles what left the loop
StatsReturn ==
  /\ spc \in {"loop", "unwind"}
  /\ \A b \in Batches : fut[b].st = "done"
  /\ spc = "loop" => Len(order) = Cardinality(Batches)
  /\ future_stats' =
       Done(TryExcept(IF spc = "unwind" THEN Raise(sexc) ELSE Return(Dict(stats)), None))
  /\ spc' = "done"
  /\ UNCHANGED << resp, fut, order, stats, sexc, iresp, future_index, gstats, gpc, gout, pvars, cvars, mvars >>

(***************************************************************************)
(* get_market_stats                                                        *)
(***************************************************************************)
\* `if stats:` in place of `if stats and index_data:`
MergeIgnoringIndex(s, index_data) ==
  IF Truthy(s) THEN Dict(Update(s.d, index_data.d)) ELSE None

\* if stats and index_data: stats.update(index_data); return stats
\* and otherwise return None
MergeOrNone(s, index_data) ==
  IF Truthy(s) /\ Truthy(index_data) THEN Dict(Update(s.d, index_data.d)) ELSE None

\* the two submits; both tasks start on the two threads of the pool
Submit ==
  /\ gpc = "idle"
  /\ future_stats' = Running
  /\ future_index' = Running
  /\ gpc' = "wait_stats"
  /\ UNCHANGED << resp, fut, order, stats, spc, sexc, iresp, gstats, gout, pvars, cvars, mvars >>

\* the index request gets the response r and _get_shanghai_index ends
IndexFinish(r) ==
  /\ future_index.st = "running"
  /\ iresp' = r
  /\ future_index' = Done(GetShanghaiIndexOf[r])
  /\ UNCHANGED << resp, fut, order, stats, spc, sexc, future_stats, gstats, gpc, gout, pvars, cvars, mvars >>

\* stats = future_stats.result()
TakeStats ==
  /\ gpc = "wait_stats"
  /\ future_stats.st = "done"
  /\ IF Result(future_stats).out = "raise"
     THEN /\ gout' = Result(future_stats)
          /\ gpc' = "exit"
          /\ gstats' = gstats
     ELSE /\ gstats' = Result(future_stats).val
          /\ gpc' = "wait_index"
          /\ gout' = gout
  /\ UNCHANGED << resp, fut, order, stats, spc, sexc, future_stats, iresp, future_index, pvars, cvars, mvars >>

\* index_data = future_index.result(), and the if statement
TakeIndex ==
  /\ gpc = "wait_index"
  /\ future_index.st = "done"
  /\ gout' = IF Result(future_index).out = "raise" THEN Result(future_index)
             ELSE Return(MergeOrNone(gstats, Result(future_index).val))
  /\ gpc' = "exit"
  /\ UNCHANGED << resp, fut, order, stats, spc, sexc, future_stats, iresp, future_index,
                  gstats, pvars, cvars, mvars >>

\* the with block ends once both tasks have ended; then the call returns,
\* or its except clause handles what was raised
Exit ==
  /\ gpc = "exit"
  /\ future_stats.st = "done"
  /\ future_index.st = "done"
  /\ gout' = TryExcept(gout, None)
  /\ gpc' = "done"
  /\ UNCHANGED << resp, fut, order, stats, spc, sexc, future_stats, iresp, future_index,
                  gstats, pvars, cvars, mvars >>

\* the state before a call of get_market_stats whose cycle has n batches
AggInitOn(n) ==
  /\ resp = [b \in 1..n |-> NoResponse]
  /\ fut = [b \in 1..n |-> Pending]
  /\ order = << >>
  /\ stats = InitialStats
  /\ spc = "idle"
  /\ sexc = ""
  /\ future_stats = Pending
  /\ iresp = NoResponse
  /\ future_index = Pending
  /\ gstats = None
  /\ gpc = "idle"
  /\ gout = Return(None)

AggInit == AggInitOn(NumBatches)

(***************************************************************************)
(* get_all_stock_codes, one for loop per step, and the batches of           *)
(* _get_all_stocks_stats, one submit per step.  Each caller is a thread    *)
(* that runs _get_all_stocks_stats up to the end of its submits.           *)
(***************************************************************************)
Callers == 1..NumCallers

\* str.zfill as the format spec 06d applies it: pad on the left, never cut
RECURSIVE ZeroPad(_, _)
ZeroPad(s, width) == IF Len(s) >= width THEN s ELSE ZeroPad("0" \o s, width)

\* the for loops of get_all_stock_codes, in the order of the code: the prefix,
\* range(lo, hi), and whether the f-string formats i with :06d
CodeRanges ==
  << [prefix |-> "sh", lo |-> 600000, hi |-> 610000, pad |-> FALSE],
     [prefix |-> "sh", lo |-> 688000, hi |-> 690000, pad |-> FALSE],
     [prefix |-> "sz", lo |-> 1,      hi |-> 4000,   pad |-> TRUE],
     [prefix |-> "sz", lo |-> 300000, hi |-> 310000, pad |-> FALSE],
     [prefix |-> "bj", lo |-> 430000, hi |-> 440000, pad |-> FALSE],
     [prefix |-> "bj", lo |-> 830000, hi |-> 840000, pad |-> FALSE],
     [prefix |-> "bj", lo |-> 870000, hi |-> 880000, pad |-> FALSE] >>

\* the same loops, each cut to its first RangeCap values
CutRanges ==
  [n \in DOMAIN CodeRanges |->
     [CodeRanges[n] EXCEPT !.hi = IF @ - CodeRanges[n].lo > RangeCap
                                  THEN CodeRanges[n].lo + RangeCap ELSE @]]

\* f"sz{i}" in place of f"sz{i:06d}"
FormatCodeUnpadded(r, i) == r.prefix \o NatStr(i)

\* f"sh{i}", f"sz{i:06d}", f"sz{i}", f"bj{i}"
FormatCode(r, i) == r.prefix \o (IF r.pad THEN ZeroPad(NatStr(i), 6) ELSE NatStr(i))

\* what one for loop appends to codes
RangeCodes(r) ==
  IF r.hi > r.lo THEN [k \in 1..(r.hi - r.lo) |-> FormatCode(r, r.lo + k - 1)] ELSE << >>

\* what each for loop of the model appends, computed once
RangeCodesOf ==
  [r \in {CodeRanges[n] : n \in DOMAIN CodeRanges} \cup {CutRanges[n] : n \in DOMAIN CutRanges}
     |-> RangeCodes(r)]

\* the list of symbols that the for loops of the ranges l have appended
RECURSIVE Symbols(_)
Symbols(l) ==
  IF l = << >> THEN << >>
  ELSE Symbols(SubSeq(l, 1, Len(l) - 1)) \o RangeCodesOf[l[Len(l)]]

\* batch_size
BatchSize == 500

Min(a, b) == IF a < b THEN a ELSE b

\* all_codes[i:i + batch_size - 1]
BatchAtShort(cs, i) == SubSeq(cs, i + 1, Min(i + BatchSize - 1, Len(cs)))

\* all_codes[i:i + batch_size]
BatchAt(cs, i) == SubSeq(cs, i + 1, Min(i + BatchSize, Len(cs)))

\* range(0, len(all_codes), batch_size)
BatchStarts(cs) ==
  [k \in 1..((Len(cs) + BatchSize - 1) \div BatchSize) |-> (k - 1) * BatchSize]

\* the list batches of caller t
BatchList(t) ==
  LET cs == Symbols(all_codes[t])
  IN  [k \in DOMAIN batches[t] |-> BatchAt(cs, batches[t][k])]

\* the caller enters get_all_stock_codes: the cached list, or a new local list
CodesCall(t) ==
  /\ cpc[t] = "call"
  /\ ncalls' = [ncalls EXCEPT ![t] = @ + 1]
  /\ IF codes_loaded /\ Symbols(stock_codes) # << >>
     THEN /\ all_codes' = [all_codes EXCEPT ![t] = stock_codes]
          /\ cpc' = [cpc EXCEPT ![t] = "batch"]
          /\ UNCHANGED << codes, rangeno >>
     ELSE /\ codes' = [codes EXCEPT ![t] = << >>]
          /\ rangeno' = [rangeno EXCEPT ![t] = 1]
          /\ cpc' = [cpc EXCEPT ![t] = "build"]
          /\ UNCHANGED all_codes
  /\ UNCHANGED << ranges, stock_codes, codes_loaded, batches, futures, pvars, avars, mvars >>

\* the for loops append to the class attribute, which codes is an alias of
CodesRangeInPlace(t) ==
  /\ cpc[t] = "build"
  /\ stock_codes' = Append(stock_codes, ranges[rangeno[t]])
  /\ codes' = [codes EXCEPT ![t] = stock_codes']
  /\ rangeno' = [rangeno EXCEPT ![t] = @ + 1]
  /\ cpc' = [cpc EXCEPT ![t] = IF rangeno[t] = Len(ranges) THEN "store" ELSE "build"]
  /\ UNCHANGED << ranges, codes_loaded, all_codes, batches, futures, ncalls,
                  pvars, avars, mvars >>

\* one for loop appends its codes to the local list
CodesRange(t) ==
  /\ cpc[t] = "build"
  /\ codes' = [codes EXCEPT ![t] = Append(@, ranges[rangeno[t]])]
  /\ rangeno' = [rangeno EXCEPT ![t] = @ + 1]
  /\ cpc' = [cpc EXCEPT ![t] = IF rangeno[t] = Len(ranges) THEN "store" ELSE "build"]
  /\ UNCHANGED << ranges, stock_codes, codes_loaded, all_codes, batches, futures, ncalls,
                  pvars, avars, mvars >>

\* cls._stock_codes = codes
CodesStore(t) ==
  /\ cpc[t] = "store"
  /\ stock_codes' = codes[t]
  /\ cpc' = [cpc EXCEPT ![t] = "flag"]
  /\ UNCHANGED << ranges, codes_loaded, codes, rangeno, all_codes, batches, futures, ncalls,
                  pvars, avars, mvars >>

\* cls._codes_loaded = True; return codes
CodesReturn(t) ==
  /\ cpc[t] = "flag"
  /\ codes_loaded' = TRUE
  /\ all_codes' = [all_codes EXCEPT ![t] = codes[t]]
  /\ cpc' = [cpc EXCEPT ![t] = "batch"]
  /\ UNCHANGED << ranges, stock_codes, codes, rangeno, batches, futures, ncalls,
                  pvars, avars, mvars >>

\* batches = [...]
MakeBatches(t) ==
  /\ cpc[t] = "batch"
  /\ batches' = [batches EXCEPT ![t] = BatchStarts(Symbols(all_codes[t]))]
  /\ futures' = [futures EXCEPT ![t] = << >>]
  /\ cpc' = [cpc EXCEPT ![t] = "submit"]
  /\ UNCHANGED << ranges, stock_codes, codes_loaded, codes, rangeno, all_codes, ncalls,
                  pvars, avars, mvars >>

\* executor.submit(cls._fetch_batch, batch) for the next batch of the list
SubmitBatch(t) ==
  /\ cpc[t] = "submit"
  /\ Len(futures[t]) < Len(batches[t])
  /\ futures' = [futures EXCEPT ![t] = Append(@, Len(futures[t]) + 1)]
  /\ UNCHANGED << ranges, stock_codes, codes_loaded, cpc, codes, rangeno, all_codes, batches,
                  ncalls, pvars, avars, mvars >>

\* the next cycle of the caller comes to its call of get_all_stock_codes
CallAgain(t) ==
  /\ cpc[t] = "submit"
  /\ Len(futures[t]) = Len(batches[t])
  /\ ncalls[t] < MaxCalls
  /\ cpc' = [cpc EXCEPT ![t] = "call"]
  /\ UNCHANGED << ranges, stock_codes, codes_loaded, codes, rangeno, all_codes, batches,
                  futures, ncalls, pvars, avars, mvars >>

\* the class attributes as the class statement leaves them, and the callers
\* of the set ts about to make their first call
CodesInitOn(rs, ts) ==
  /\ ranges = rs
  /\ stock_codes = << >>
  /\ codes_loaded = FALSE
  /\ cpc = [t \in Callers |-> IF t \in ts THEN "call" ELSE "off"]
  /\ codes = [t \in Callers |-> << >>]
  /\ rangeno = [t \in Callers |-> 1]
  /\ all_codes = [t \in Callers |-> << >>]
  /\ batches = [t \in Callers |-> << >>]
  /\ futures = [t \in Callers |-> << >>]
  /\ ncalls = [t \in Callers |-> 0]

CodesNext ==
  \E t \in Callers :
    \/ CodesCall(t)
    \/ CodesRange(t)
    \/ CodesStore(t)
    \/ CodesReturn(t)
    \/ MakeBatches(t)
    \/ SubmitBatch(t)
    \/ CallAgain(t)

(***************************************************************************)
(* The monitor of the application: toggle_monitor, monitor_loop,           *)
(* fetch_and_save, and save_stats of the storage, which reads the file,    *)
(* appends a row and writes the file back.                                 *)
(***************************************************************************)
Threads == 1..MaxThreads

\* max_points
MaxPoints == 100

\* deque(maxlen=max_points).append
DequeAppend(q, x) == IF Len(q) >= MaxPoints THEN Append(Tail(q), x) ELSE Append(q, x)

\* the keys of self.data
DataKeys ==
  {"sh_index", "sh_amount", "up_count", "down_count", "up_3pct", "down_3pct",
   "up_5pct", "down_5pct", "limit_up", "limit_down"}

\* the counter columns of a row of the file
RowKeys ==
  {"total", "up_count", "down_count", "flat_count", "up_3pct", "down_3pct",
   "up_5pct", "down_5pct", "limit_up", "limit_down"}

\* new_row of save_stats; now is datetime.now(), which the model takes at
\* the beginning of the cycle
NewRow(snapshot, now) ==
  [key \in RowKeys \cup {"datetime"} |->
     IF key = "datetime" THEN now ELSE Get(snapshot, key, 0)]

\* a snapshot as get_market_stats returns one: the counts of a batch response
\* added to the initial dict, updated with the values of the index
SampleSnapshot ==
  MergeOrNone(Dict(AddBatch(InitialStats,
                            FetchBatch(TextResponse(ResponseText(
                              << Rec("valid", 12000, 33), Rec("valid", -10000, 33),
                                 Rec("valid", 0, 33) >>))).val)),
              GetShanghaiIndex(TextResponse(IndexText("sh000001", 38, "0.13"))).val)

\* how a call of get_market_stats ends: it returns None or a snapshot
MarketOutcomes == {Return(None), Return(SampleSnapshot)}

\* toggle_monitor: stop when running; otherwise start, with a new thread
ToggleMonitor ==
  /\ IF is_running
     THEN /\ is_running' = FALSE
          /\ status_var' = "stopped"
          /\ mpc' = mpc
     ELSE /\ \E t \in Threads : mpc[t] = "unborn"
          /\ is_running' = TRUE
          /\ status_var' = "initialising"
          /\ mpc' = [mpc EXCEPT ![CHOOSE t \in Threads :
                                    /\ mpc[t] = "unborn"
                                    /\ \A u \in Threads : mpc[u] = "unborn" => t <= u]
                                 = "test"]
  /\ UNCHANGED << mcycles, mnow, mstats, df, store, time_labels, data, pvars, avars, cvars >>

\* while self.is_running: the thread begins a cycle, or ends
LoopTest(t) ==
  /\ mpc[t] = "test"
  /\ is_running => mcycles < MaxCycles
  /\ IF is_running
     THEN /\ mpc' = [mpc EXCEPT ![t] = "fetch"]
          /\ mcycles' = mcycles + 1
          /\ mnow' = [mnow EXCEPT ![t] = mcycles + 1]
          /\ status_var' = "fetching"
     ELSE /\ mpc' = [mpc EXCEPT ![t] = "exited"]
          /\ UNCHANGED << mcycles, mnow, status_var >>
  /\ UNCHANGED << is_running, mstats, df, store, time_labels, data, pvars, avars, cvars >>

\* a failed cycle ends the loop
FetchedOrExit(t, out) ==
  /\ mpc[t] = "fetch"
  /\ mstats' = [mstats EXCEPT ![t] = out.val]
  /\ IF out.out = "return" /\ Truthy(out.val)
     THEN /\ mpc' = [mpc EXCEPT ![t] = "read"]
          /\ status_var' = status_var
     ELSE /\ mpc' = [mpc EXCEPT ![t] = "exited"]
          /\ status_var' = "failed: no response"
  /\ UNCHANGED << is_running, mcycles, mnow, df, store, time_labels, data, pvars, avars, cvars >>

\* fetch_and_save: get_market_stats ends with out; then `if stats:`, its
\* else branch, or the except clause
Fetched(t, out) ==
  /\ mpc[t] = "fetch"
  /\ mstats' = [mstats EXCEPT ![t] = out.val]
  /\ IF out.out = "raise"
     THEN /\ mpc' = [mpc EXCEPT ![t] = "sleep"]
          /\ status_var' = "error"
     ELSE IF Truthy(out.val)
     THEN /\ mpc' = [mpc EXCEPT ![t] = "read"]
          /\ status_var' = status_var
     ELSE /\ mpc' = [mpc EXCEPT ![t] = "sleep"]
          /\ status_var' = "failed: no response"
  /\ UNCHANGED << is_running, mcycles, mnow, df, store, time_labels, data, pvars, avars, cvars >>

\* save_stats: df = pd.read_excel(file_path), or an empty frame
SaveRead(t) ==
  /\ mpc[t] = "read"
  /\ df' = [df EXCEPT ![t] = store]
  /\ mpc' = [mpc EXCEPT ![t] = "write"]
  /\ UNCHANGED << is_running, mcycles, mnow, mstats, store, time_labels, data, status_var,
                  pvars, avars, cvars >>

\* save_stats: the row is appended to df and df.to_excel writes the file, or
\* raises, which save_stats catches
SaveWrite(t, ok) ==
  /\ mpc[t] = "write"
  /\ store' = IF ok THEN Append(df[t], NewRow(mstats[t].d, mnow[t])) ELSE store
  /\ df' = [df EXCEPT ![t] = << >>]
  /\ mpc' = [mpc EXCEPT ![t] = "append"]
  /\ UNCHANGED << is_running, mcycles, mnow, mstats, time_labels, data, status_var,
                  pvars, avars, cvars >>

\* fetch_and_save: the appends to time_labels and data, and the UI update
Remember(t) ==
  /\ mpc[t] = "append"
  /\ time_labels' = DequeAppend(time_labels, mnow[t])
  /\ data' = [k \in DataKeys |->
                IF k \in DOMAIN mstats[t].d THEN DequeAppend(data[k], mstats[t].d[k])
                ELSE data[k]]
  /\ status_var' = "updated"
  /\ mstats' = [mstats EXCEPT ![t] = None]
  /\ mpc' = [mpc EXCEPT ![t] = "sleep"]
  /\ UNCHANGED << is_running, mcycles, mnow, df, store, pvars, avars, cvars >>

\* time.sleep(wait_time) ends
Wake(t) ==
  /\ mpc[t] = "sleep"
  /\ mpc' = [mpc EXCEPT ![t] = "test"]
  /\ UNCHANGED << is_running, mcycles, mnow, mstats, df, store, time_labels, data, status_var,
                  pvars, avars, cvars >>

\* today's rows of the file when the application starts: none, one, or about
\* max_points of them, each the row that save_stats writes for a snapshot
\* whose counters are those of the initial dict
StoredRows ==
  {[i \in 1..n |-> NewRow(InitialStats, i - n)] :
     n \in {0, 1, MaxPoints - 1, MaxPoints, MaxPoints + 1}}

\* the appends of one deque in the loop over df.iterrows(): a deque of
\* maxlen max_points keeps the last max_points of what was appended
AppendAll(q, xs) ==
  LET all == q \o xs
  IN  IF Len(all) > MaxPoints THEN SubSeq(all, Len(all) - MaxPoints + 1, Len(all)) ELSE all

\* load_today_data on the rows of today: without rows nothing changes;
\* otherwise the deques are cleared and every row appends its time and, for
\* every key of self.data, its value or 0
LoadTodayData(rows, labels, series) ==
  IF Len(rows) > 0
  THEN [time_labels |-> AppendAll(<< >>, [i \in 1..Len(rows) |-> rows[i]["datetime"]]),
        data |-> [k \in DataKeys |->
                    AppendAll(<< >>, [i \in 1..Len(rows) |-> Get(rows[i], k, 0)])]]
  ELSE [time_labels |-> labels, data |-> series]

\* the application after __init__, the file holding rows for today
MonitorInitOn(rows) ==
  /\ is_running = FALSE
  /\ mpc = [t \in Threads |-> "unborn"]
  /\ mcycles = 0
  /\ mnow = [t \in Threads |-> 0]
  /\ mstats = [t \in Threads |-> None]
  /\ df = [t \in Threads |-> << >>]
  /\ store = rows
  /\ time_labels = LoadTodayData(rows, << >>, [k \in DataKeys |-> << >>]).time_labels
  /\ data = LoadTodayData(rows, << >>, [k \in DataKeys |-> << >>]).data
  /\ status_var = "ready"

\* the application after __init__, on a day without rows yet
MonitorInit == MonitorInitOn(<< >>)

MonitorNext ==
  \/ ToggleMonitor
  \/ \E t \in Threads : LoopTest(t)
  \/ \E t \in Threads : \E out \in MarketOutcomes : Fetched(t, out)
  \/ \E t \in Threads : SaveRead(t)
  \/ \E t \in Threads : \E ok \in BOOLEAN : SaveWrite(t, ok)
  \/ \E t \in Threads : Remember(t)
  \/ \E t \in Threads : Wake(t)

(***************************************************************************)
(* The specifications: one call of get_market_stats, and one call of       *)
(* _parse_and_count on each response text.                                 *)
(***************************************************************************)
Init == ParseInitOn(<< >>) /\ AggInit /\ CodesInitOn(CodeRanges, {}) /\ MonitorInit

Next ==
  \/ Submit
  \/ StatsStart
  \/ \E b \in Batches : WorkerStart(b)
  \/ \E b \in Batches : \E r \in BatchResponses : WorkerFinish(b, r)
  \/ \E b \in Batches : Consume(b)
  \/ StatsReturn
  \/ \E r \in IndexResponses : IndexFinish(r)
  \/ TakeStats
  \/ TakeIndex
  \/ Exit

Spec == Init /\ [][Next]_vars

ParseInit == (\E rs \in Responses : ParseInitOn(rs)) /\ AggInit /\ CodesInitOn(CodeRanges, {}) /\ MonitorInit

SpecParse == ParseInit /\ [][ParseNext]_vars

\* one thread runs _get_all_stocks_stats, cycle after cycle, on the ranges of the code
CodesInit == ParseInitOn(<< >>) /\ AggInit /\ CodesInitOn(CodeRanges, {1}) /\ MonitorInit

SpecCodes == CodesInit /\ [][CodesNext]_vars

\* the tasks of the two pools of one call of get_market_stats, on a cycle of
\* NumPoolBatches batches, up to the end of the last task.  The as_completed
\* loop and the result() calls take no part in it: they neither start nor end
\* a task.
PoolResponses == {ErrorResponse("Timeout")}

PoolInit == ParseInitOn(<< >>) /\ AggInitOn(NumPoolBatches) /\ CodesInitOn(CodeRanges, {}) /\ MonitorInit

PoolNext ==
  \/ Submit
  \/ StatsStart
  \/ \E b \in Batches : WorkerStart(b)
  \/ \E b \in Batches : \E r \in PoolResponses : WorkerFinish(b, r)
  \/ \E r \in IndexResponses : IndexFinish(r)

SpecPool == PoolInit /\ [][PoolNext]_vars

\* _get_shanghai_index on its own, on each of the index inputs
IndexNext ==
  \/ Submit
  \/ \E r \in IndexInputs : IndexFinish(r)

SpecIndex == Init /\ [][IndexNext]_vars

\* every caller runs it at once, on the cut ranges
RaceInit == ParseInitOn(<< >>) /\ AggInit /\ CodesInitOn(CutRanges, Callers) /\ MonitorInit

\* either of the two and not both: a call of _parse_and_count on a response
\* text, or a call of get_market_stats
CountersNext ==
  \/ gpc = "idle" /\ ParseNext
  \/ recs = << >> /\ ppc = "start" /\ Next

SpecCounters == ParseInit /\ [][CountersNext]_vars

\* the monitor, with every call of get_market_stats taken as a whole
SpecMonitor == Init /\ [][MonitorNext]_vars

\* the application started on a day that may have rows already
HistoryInit ==
  /\ ParseInitOn(<< >>) /\ AggInit /\ CodesInitOn(CodeRanges, {})
  /\ \E rows \in StoredRows : MonitorInitOn(rows)

SpecHistory == HistoryInit /\ [][MonitorNext]_vars

\* what the scheduling of the threads gives: every monitor_loop thread is a
\* thread of its own and keeps running. Its test of is_running is made, the
\* call of get_market_stats returns (the requests have timeouts), save_stats
\* reads and writes, the appends are made, and time.sleep(wait_time) ends. A
\* call that is outstanding can always return None, and any return ends it, so
\* weak fairness of that return says no more than that the call returns.
\* Nothing obliges the user to press the button.
ThreadRuns(t) ==
  /\ WF_vars(LoopTest(t))
  /\ WF_vars(Fetched(t, Return(None)))
  /\ WF_vars(SaveRead(t))
  /\ WF_vars(\E ok \in BOOLEAN : SaveWrite(t, ok))
  /\ WF_vars(Remember(t))
  /\ WF_vars(Wake(t))

SpecShutdown == Init /\ [][MonitorNext]_vars /\ \A t \in Threads : ThreadRuns(t)

SpecRace == RaceInit /\ [][CodesNext]_vars

(***************************************************************************)
(* The claims about one call of get_market_stats.                          *)
(***************************************************************************)
\* the request of batch b raised, and _fetch_batch yielded no stats
BatchFailed(b) == resp[b].exc # "" /\ fut[b].st = "done" /\ ~Truthy(Result(fut[b]).val)

\* the request of batch b got a text, and _fetch_batch yielded its stats
BatchSucceeded(b) == resp[b].exc = "" /\ fut[b].st = "done" /\ Truthy(Result(fut[b]).val)

\* the index fetch ended with the five index values
IndexSucceeded ==
  /\ future_index.st = "done"
  /\ Result(future_index).out = "return"
  /\ Truthy(Result(future_index).val)

\* the index fetch ended with the empty dict
IndexEmpty == future_index.st = "done" /\ Result(future_index) = Return(Dict(<< >>))

\* the only response of the model that holds a complete index record
GoodIndexResponse == TextResponse(IndexText("sh000001", 38, "0.13"))

\* the call returned a snapshot: the ten counters, the time, the index values
ReturnedSnapshot ==
  /\ gpc = "done"
  /\ gout.out = "return"
  /\ gout.val.t = "dict"
  /\ DOMAIN gout.val.d = CounterKeys \cup {"time"} \cup IndexKeys

ReturnedNone == gpc = "done" /\ gout = Return(None)

\* the sum of one counter over the stats the batches of S yielded
RECURSIVE SumOver(_, _)
SumOver(S, key) ==
  IF S = {} THEN 0
  ELSE LET b == CHOOSE x \in S : TRUE
       IN  Result(fut[b]).val.d[key] + SumOver(S \ {b}, key)

\* C1: when every batch of the cycle failed and the index fetch succeeded,
\* get_market_stats returns None.
C1_AllBatchesFailed ==
  (gpc = "done" /\ IndexSucceeded /\ \A b \in Batches : BatchFailed(b)) => ReturnedNone

\* C2: a request error, a text without the index record, a record of too
\* few fields and an unparseable field each make the index fetch yield the
\* empty dict; when it does, get_market_stats returns None whatever the
\* batches yielded; and a returned snapshot holds the five index values.
C2_IndexEmptyBlocks ==
  gpc = "done" =>
    /\ iresp # GoodIndexResponse => IndexEmpty
    /\ IndexEmpty => ReturnedNone
    /\ ~ReturnedNone =>
         /\ ReturnedSnapshot
         /\ IndexSucceeded
         /\ \A key \in IndexKeys : gout.val.d[key] = Result(future_index).val.d[key]

\* every batch succeeded, the index record had too few fields: None
C2_Witness ==
  /\ ReturnedNone
  /\ \A b \in Batches : BatchSucceeded(b)
  /\ future_stats.res.val.d["total"] > 0
  /\ iresp = TextResponse(IndexText("sh000001", 37, "0.13"))

\* C3: when some but not all batches failed, the others succeeded and the
\* index fetch succeeded, get_market_stats returns a snapshot, and each of
\* its ten counters is the sum of that counter over the batches that
\* succeeded.
C3_PartialFailure ==
  LET failed == {b \in Batches : BatchFailed(b)}
      succeeded == {b \in Batches : BatchSucceeded(b)}
  IN  (/\ gpc = "done"
       /\ IndexSucceeded
       /\ failed # {}
       /\ succeeded # {}
       /\ failed \cup succeeded = Batches)
      => /\ ReturnedSnapshot
         /\ \A key \in CounterKeys : gout.val.d[key] = SumOver(succeeded, key)

\* one batch failed, two batches with records succeeded, a snapshot
C3_Witness ==
  /\ ReturnedSnapshot
  /\ Cardinality({b \in Batches : BatchFailed(b)}) = 1
  /\ Cardinality({b \in Batches : BatchSucceeded(b)}) = NumBatches - 1
  /\ \A b \in Batches : BatchSucceeded(b) => Result(fut[b]).val.d["total"] > 0
  /\ gout.val.d["total"] >= NumBatches - 1

\* C4: no exception leaves get_market_stats or stays in a future: the call
\* never stops before it has ended, and it ends by returning None or a
\* snapshot.
C4_NeverRaises ==
  /\ gout.out = "return"
  /\ future_stats.res.out = "return"
  /\ future_index.res.out = "return"
  /\ gpc # "done" => ENABLED Next
  /\ gpc = "done" => (ReturnedNone \/ ReturnedSnapshot)

\* the call ended after a batch request and the index request both raised,
\* and after a batch request raised and float() raised in the index fetch
C4_Witness ==
  /\ gpc = "done"
  /\ \E b \in Batches : resp[b].exc = "Timeout"
  /\ iresp \in {ErrorResponse("Timeout"), TextResponse(IndexText("sh000001", 38, "abc"))}
  /\ gout = Return(None)

\* the accumulator after the loop body ran on the batches b, b+1, ... in
\* the order of submission
RECURSIVE FoldInOrder(_, _)
FoldInOrder(acc, b) ==
  IF b > NumBatches THEN acc
  ELSE FoldInOrder(AddBatch(acc, Result(fut[b]).val), b + 1)

\* C5: whatever the order in which as_completed yielded the futures, the
\* dict _get_all_stocks_stats returns is the one the loop gives when it
\* takes the same batch results in the order of submission.
C5_OrderIndependent ==
  spc = "done" =>
    /\ Len(order) = NumBatches
    /\ future_stats = Done(Return(Dict(FoldInOrder(InitialStats, 1))))

\* the last batch completed first, with stats other than the first batch's
C5_Witness ==
  /\ spc = "done"
  /\ order[1] = NumBatches
  /\ order[NumBatches] = 1
  /\ BatchSucceeded(1)
  /\ BatchSucceeded(NumBatches)
  /\ Result(fut[1]).val # Result(fut[NumBatches]).val

(***************************************************************************)
(* What the counters of a response should be, from the records it was      *)
(* written from (not from the parse).                                      *)
(***************************************************************************)
IsValid(r) == r.kind = "valid"

\* the rule of each counter, on a percentage change in thousandths
Rule(key, th) ==
  CASE key = "total"      -> TRUE
    [] key = "up_count"   -> th > 0
    [] key = "down_count" -> th < 0
    [] key = "flat_count" -> th = 0
    [] key = "up_3pct"    -> th >= 3000
    [] key = "down_3pct"  -> th <= -3000
    [] key = "up_5pct"    -> th >= 5000
    [] key = "down_5pct"  -> th <= -5000
    [] key = "limit_up"   -> th >= 9900
    [] key = "limit_down" -> th <= -9900

\* per counter, the number of valid records of rs that satisfy its rule
ExpectedStats(rs) ==
  [key \in CounterKeys |->
     Cardinality({i \in DOMAIN rs : IsValid(rs[i]) /\ Rule(key, rs[i].th)})]

\* the field-wise sum of two BatchStats
SumStats(a, b) == [key \in CounterKeys |-> a[key] + b[key]]

\* the for loop is about to process the record recs[pos]
AtRecord == ppc = "loop" /\ pos <= Len(recs)

\* the change of one counter over a step
Delta(key) == pstats'[key] - pstats[key]

\* C6: for every split of the matched records into a first and a second
\* part, the field-wise sum of the counters of the two parts equals the
\* counters of the whole text; and counting the same text again gives the
\* result the call returned.
C6_SplitAdditive ==
  ppc = "done" =>
    /\ \A cut \in 0..Len(matches) :
         SumStats(CountMatches(SubSeq(matches, 1, cut)),
                  CountMatches(SubSeq(matches, cut + 1, Len(matches)))) = presult
    /\ \A cut \in 0..Len(recs) :
         SumStats(ParseAndCount(ResponseText(SubSeq(recs, 1, cut))),
                  ParseAndCount(ResponseText(SubSeq(recs, cut + 1, Len(recs))))) = presult
    /\ ParseAndCount(text) = presult

\* a returned parse of two counted records, split between them
C6_Witness ==
  /\ ppc = "done"
  /\ Len(matches) = 2
  /\ presult["total"] = 2
  /\ presult["flat_count"] = 2

\* C7: the step that processes a valid record with pct >= 9.9 adds exactly
\* one to each of total, up_count, up_3pct, up_5pct and limit_up and leaves
\* the other five counters as they were; the step that processes a valid
\* record with pct <= -9.9 does the same with the five down counters.
C7_NonExclusive ==
  [][ (AtRecord /\ IsValid(recs[pos])) =>
        /\ recs[pos].th >= 9900 =>
             \A key \in CounterKeys :
               Delta(key) = IF key \in {"total", "up_count", "up_3pct", "up_5pct", "limit_up"}
                            THEN 1 ELSE 0
        /\ recs[pos].th <= -9900 =>
             \A key \in CounterKeys :
               Delta(key) = IF key \in {"total", "down_count", "down_3pct", "down_5pct", "limit_down"}
                            THEN 1 ELSE 0 ]_vars

\* a record with pct 12.0 was counted after a record with pct -10.0
C7_Witness ==
  /\ ppc = "loop"
  /\ pos = 3
  /\ recs[1] = Rec("valid", -10000, 33)
  /\ recs[2] = Rec("valid", 12000, 33)
  /\ pstats["limit_up"] = 1
  /\ pstats["limit_down"] = 1
  /\ pstats["up_3pct"] = 1

\* C8: the step that processes a valid record adds one to up_3pct iff
\* pct >= 3, to up_5pct iff pct >= 5, to limit_up iff pct >= 9.9, to
\* down_3pct iff pct <= -3, to down_5pct iff pct <= -5, to limit_down iff
\* pct <= -9.9, and nothing otherwise; for pct = 0 it adds one to total and
\* to flat_count and leaves the other eight counters as they were.
C8_Boundaries ==
  [][ (AtRecord /\ IsValid(recs[pos])) =>
        /\ \A key \in {"up_3pct", "up_5pct", "limit_up", "down_3pct", "down_5pct", "limit_down"} :
             Delta(key) = IF Rule(key, recs[pos].th) THEN 1 ELSE 0
        /\ recs[pos].th = 0 =>
             \A key \in CounterKeys :
               Delta(key) = IF key \in {"total", "flat_count"} THEN 1 ELSE 0 ]_vars

\* records with pct 9.89 and 9.9 were counted: one limit-up
C8_Witness ==
  /\ ppc = "loop"
  /\ pos = 3
  /\ recs[1] = Rec("valid", 9890, 33)
  /\ recs[2] = Rec("valid", 9900, 33)
  /\ pstats["limit_up"] = 1
  /\ pstats["up_5pct"] = 2

\* C9: the step that processes a malformed record (empty value, value 1,
\* no-match key, fewer than 33 fields, field 32 empty or not a number)
\* leaves the ten counters as they were and moves the loop on to the next
\* record; and a valid record right after a malformed one is counted.
C9_MalformedSkipped ==
  [][ AtRecord =>
        /\ ~IsValid(recs[pos]) =>
             /\ pstats' = pstats
             /\ ppc' = "loop"
             /\ pos' = pos + 1
             /\ matches' = matches
        /\ (IsValid(recs[pos]) /\ pos > 1 /\ ~IsValid(recs[pos - 1])) =>
             Delta("total") = 1 ]_vars

\* a valid record was counted after a malformed one
C9_Witness ==
  /\ ppc = "done"
  /\ Len(recs) = 2
  /\ recs[1] \in MalformedRecs
  /\ IsValid(recs[2])
  /\ presult["total"] = 1

\* the records of the end-to-end case: pct 12.0, -10.0 and 0.0 and one
\* malformed record, in any order
IsEndToEndCase(rs) ==
  /\ Len(rs) = 4
  /\ \A r \in EndToEndRecs : \E i \in 1..4 : rs[i] = r

\* C10: the dict _parse_and_count returns has total equal to the number of
\* valid records of the text and every bucket equal to the number of valid
\* records that satisfy the bucket's rule; for three valid records with
\* pct 12.0, -10.0, 0.0 and one malformed record it is total 3 and every
\* other counter 1.
C10_EndToEnd ==
  ppc = "done" =>
    /\ presult = ExpectedStats(recs)
    /\ IsEndToEndCase(recs) =>
         presult = [key \in CounterKeys |-> IF key = "total" THEN 3 ELSE 1]

\* the end-to-end case was parsed, the malformed record first
C10_Witness ==
  /\ ppc = "done"
  /\ IsEndToEndCase(recs)
  /\ ~IsValid(recs[1])
  /\ presult["total"] = 3

(***************************************************************************)
(* The claims about the universe and its batches.                          *)
(***************************************************************************)
\* get_all_stock_codes has just returned to caller t
CodesReturned(t) == cpc[t] = "batch"

\* the first and the last symbol of each range of the universe, in its order
SymbolRanges ==
  << << "sh600000", "sh609999" >>, << "sh688000", "sh689999" >>,
     << "sz000001", "sz003999" >>, << "sz300000", "sz309999" >>,
     << "bj430000", "bj439999" >>, << "bj830000", "bj839999" >>,
     << "bj870000", "bj879999" >> >>

SymbolPrefix(c) == Slice(c, 1, 2)

SymbolNumber(c) == DigitsVal(Slice(c, 3, Len(c)))

\* two letters of an exchange, then exactly six digits
WellFormedSymbol(c) ==
  /\ Len(c) = 8
  /\ SymbolPrefix(c) \in {"sh", "sz", "bj"}
  /\ AllDigits(Slice(c, 3, 8))

RangeSize(n) == SymbolNumber(SymbolRanges[n][2]) - SymbolNumber(SymbolRanges[n][1]) + 1

\* the number of symbols of the ranges before range n
RECURSIVE SymbolsBefore(_)
SymbolsBefore(n) == IF n = 1 THEN 0 ELSE SymbolsBefore(n - 1) + RangeSize(n - 1)

\* cs holds range n at its place: its symbols one after the other, in
\* ascending order of their number
HoldsRange(cs, n) ==
  LET first == SymbolRanges[n][1]
      base  == SymbolsBefore(n)
  IN  \A k \in 1..RangeSize(n) :
        /\ SymbolPrefix(cs[base + k]) = SymbolPrefix(first)
        /\ SymbolNumber(cs[base + k]) = SymbolNumber(first) + k - 1

NoSymbolTwice(cs) == Cardinality({cs[i] : i \in DOMAIN cs}) = Len(cs)

\* C11: whenever get_all_stock_codes returns, the list it returns holds the
\* seven ranges sh600000-sh609999, sh688000-sh689999, sz000001-sz003999,
\* sz300000-sz309999, bj430000-bj439999, bj830000-bj839999 and
\* bj870000-bj879999 in this order and nothing else; every entry is a
\* two-letter prefix followed by exactly six digits, no symbol occurs twice,
\* and the length is the sum of the range sizes, 55999.
C11_Universe ==
  \A t \in Callers :
    CodesReturned(t) =>
      LET cs == Symbols(all_codes[t])
      IN  /\ Len(cs) = SymbolsBefore(Len(SymbolRanges) + 1)
          /\ Len(cs) = 55999
          /\ \A n \in DOMAIN SymbolRanges : HoldsRange(cs, n)
          /\ \A i \in DOMAIN cs : WellFormedSymbol(cs[i])
          /\ NoSymbolTwice(cs)

\* the first call has built the list and returned it
C11_Witness ==
  /\ CodesReturned(1)
  /\ ncalls[1] = 1
  /\ Symbols(all_codes[1])[12001] = "sz000001"

\* the whole universe of the ranges the model runs through
Universe == Symbols(ranges)

\* caller t enters get_all_stock_codes in this step
Enters(t) == cpc[t] = "call" /\ cpc'[t] # "call"

\* C12: the universe is memoized.  Every call of get_all_stock_codes returns
\* the complete universe, never an empty or partly built list, also when
\* several threads make their first call at once; once a call has completed,
\* the cached list keeps its value, and every call entered from then on
\* returns that cached list without building one.
C12_Memoized ==
  /\ [](\A t \in Callers : CodesReturned(t) => Symbols(all_codes[t]) = Universe)
  /\ [](codes_loaded => Symbols(stock_codes) = Universe)
  /\ [][codes_loaded => Symbols(stock_codes') = Symbols(stock_codes)]_vars
  /\ [][\A t \in Callers :
          (codes_loaded /\ Enters(t)) =>
             /\ CodesReturned(t)'
             /\ all_codes'[t] = stock_codes
             /\ codes'[t] = codes[t]]_vars

\* both callers have built a list of their own, and the first one has then
\* made a second call, which returned the cached list
C12_Witness ==
  /\ codes[1] = ranges
  /\ codes[2] = ranges
  /\ ncalls[1] = 2
  /\ CodesReturned(1)
  /\ Symbols(all_codes[1]) = Universe

\* caller t has made its list batches and submits its tasks
Batched(t) == cpc[t] = "submit"

\* the batches of bs one after the other, when each but the last has
\* BatchSize symbols and they hold total symbols together
Concatenation(bs, total) ==
  [i \in 1..total |-> bs[((i - 1) \div BatchSize) + 1][((i - 1) % BatchSize) + 1]]

RECURSIVE SumOfLengths(_, _)
SumOfLengths(bs, k) == IF k = 0 THEN 0 ELSE SumOfLengths(bs, k - 1) + Len(bs[k])

\* C15: the batches are a partition of the universe into contiguous chunks of
\* 500: every batch but possibly the last holds exactly 500 symbols, no batch
\* is empty, the batches one after the other are the universe again, so that
\* every symbol is in exactly one batch, and the tasks submitted are one per
\* batch, task k for batch k.
C15_Partition ==
  \A t \in Callers :
    Batched(t) =>
      /\ Len(futures[t]) <= Len(batches[t])
      /\ \A k \in DOMAIN futures[t] : futures[t][k] = k
      /\ ~ENABLED SubmitBatch(t) => Len(futures[t]) = Len(batches[t])
      /\ futures[t] = << >> =>
           LET cs == Symbols(all_codes[t])
               bs == BatchList(t)
               n  == Len(bs)
           IN  /\ BatchSize = 500
               /\ n > 0
               /\ \A k \in 1..(n - 1) : Len(bs[k]) = BatchSize
               /\ Len(bs[n]) \in 1..BatchSize
               /\ SumOfLengths(bs, n) = Len(cs)
               /\ Concatenation(bs, Len(cs)) = cs
               /\ NoSymbolTwice(Concatenation(bs, Len(cs)))

\* the universe has been cut into 112 batches, the last one of 499 symbols,
\* and every one of them has been submitted
C15_Witness ==
  /\ Batched(1)
  /\ Len(batches[1]) = 112
  /\ Len(futures[1]) = 112
  /\ batches[1][112] = 55500
  /\ all_codes[1] = CodeRanges

(***************************************************************************)
(* More claims about one call of get_market_stats.                         *)
(***************************************************************************)
\* the request of batch b raised
RequestRaised(b) == resp[b].exc # ""

\* the loop of _get_all_stocks_stats takes the result of batch b in this step
Consumes(b) == order' = Append(order, b)

\* the body of a response whose status is not 2xx: requests.get returns it
\* like any other, and nothing in _fetch_batch looks at the status
ErrorPage == "<html><head><title>502 Bad Gateway</title></head></html>"

ExpectedIndexValue(key, p) ==
  IF IndexField(key) = p.pos
  THEN (IF p.val = "-1.5" THEN Num(-15, 1) ELSE Num(12, 0))
  ELSE CASE key = "sh_price"     -> Num(303123, 2)
         [] key = "sh_pre_close" -> Num(302733, 2)
         [] key = "sh_change"    -> Num(39, 1)
         [] key = "sh_pct"       -> Num(13, 2)
         [] key = "sh_amount"    -> Num(35000000, 0)

\* the record of p is the index record, has the fields that are read, and
\* each of them is a numeral
IndexComplete(p) ==
  /\ p.code = "sh000001"
  /\ p.nf >= 38
  /\ p.pos \in {3, 4, 31, 32, 37} => p.val \in {"-1.5", "12"}

EmptyIndex == Return(Dict(<< >>))

\* C14: _get_shanghai_index returns exactly the five values of the fields 3,
\* 4, 31, 32 and 37 of the index record when the record has more than 37
\* fields and these five are numerals; it returns an empty dict, and raises
\* nothing, when the text has no index record, when the record has too few
\* fields, when one of the five fields is not a numeral, and when the
\* request raises.
C14_IndexFields ==
  future_index.st = "done" =>
    /\ Result(future_index).out = "return"
    /\ Result(future_index).val.t = "dict"
    /\ DOMAIN Result(future_index).val.d \in {{}, IndexKeys}
    /\ \A p \in IndexParams :
         iresp = IndexInputOf[p] =>
           Result(future_index) =
             IF IndexComplete(p)
             THEN Return(Dict([key \in IndexKeys |-> ExpectedIndexValue(key, p)]))
             ELSE EmptyIndex
    /\ iresp.exc # "" => Result(future_index) = EmptyIndex
    /\ iresp = TextResponse("") => Result(future_index) = EmptyIndex
    /\ iresp = TextResponse(TwoRecordsText) =>
         Result(future_index).val.d["sh_price"] = Num(12, 0)

\* the record with one field more than needed, and a negative field 32
C14_Witness ==
  /\ future_index.st = "done"
  /\ iresp = IndexInputOf[[code |-> "sh000001", nf |-> 39, pos |-> 32, val |-> "-1.5"]]
  /\ Result(future_index).val.d["sh_pct"] = Num(-15, 1)
  /\ Result(future_index).val.d["sh_amount"] = Num(35000000, 0)

\* the batches whose task waits in the queue of the pool
Queued == {b \in Batches : fut[b].st = "pending"}

\* C16: within one call of get_market_stats never more than 10 batch fetches
\* are in flight at once; the index fetch is a task of its own, which is not
\* one of the ten and runs at the same time as the batch fetches: it can end
\* whatever the batches do, and a batch fetch can start, as long as fewer
\* than 10 are in flight, and end, whether the index fetch has ended or not.
C16_PoolCap ==
  /\ MaxWorkers = 10
  /\ Cardinality(InFlight) <= MaxWorkers
  /\ future_index.st = "running" => ENABLED (\E r \in IndexResponses : IndexFinish(r))
  /\ (spc # "idle" /\ Queued # {} /\ Cardinality(InFlight) < MaxWorkers)
       => ENABLED (\E b \in Batches : WorkerStart(b))
  /\ (spc # "idle" /\ Queued # {} /\ Cardinality(InFlight) = MaxWorkers)
       => ~ENABLED (\E b \in Batches : WorkerStart(b))
  /\ \A b \in InFlight : ENABLED (\E r \in PoolResponses : WorkerFinish(b, r))

\* ten batch fetches and the index fetch are in flight, and more batches wait
C16_Witness ==
  /\ Cardinality(InFlight) = 10
  /\ Queued # {}
  /\ future_index.st = "running"
  /\ future_stats.st = "running"

\* C17: get_market_stats returns only after every batch fetch and the index
\* fetch have ended: when it has returned, no task is pending or running,
\* both of its futures are done, the loop has taken the result of every
\* batch, and nothing happens any more, so that no batch result arrives
\* after the snapshot was handed out.
C17_ReturnsAfterAllTasks ==
  gpc = "done" =>
    /\ \A b \in Batches : fut[b].st = "done"
    /\ future_stats.st = "done"
    /\ future_index.st = "done"
    /\ spc = "done"
    /\ {order[i] : i \in DOMAIN order} = Batches
    /\ ~ENABLED Next

\* a snapshot was returned whose last batch to end was the first submitted
C17_Witness ==
  /\ ReturnedSnapshot
  /\ \A b \in Batches : fut[b].st = "done"
  /\ Len(order) = NumBatches
  /\ order[NumBatches] = 1
  /\ future_index.st = "done"

\* the batches whose result the loop has taken and added
Added == {b \in Batches : (\E i \in DOMAIN order : order[i] = b) /\ Truthy(Result(fut[b]).val)}

\* a pool thread ends the task of batch b in this step
Ends(b) == fut[b].st = "running" /\ fut'[b].st = "done"

\* C18: the accumulator of _get_all_stocks_stats is written by the thread of
\* the function only: it changes when the function sets it up and when its
\* loop adds the result of a future that is done, and by nothing else.  A
\* pool thread that ends a task writes the future of its own batch and
\* leaves the accumulator and the other futures alone.  No update is lost:
\* at every point the accumulator holds the sum over the batches added.
C18_SingleWriter ==
  /\ [][stats' # stats =>
          \/ spc = "idle" /\ spc' = "loop" /\ stats' = InitialStats
          \/ \E b \in Batches :
               /\ Consumes(b)
               /\ fut[b].st = "done"
               /\ fut' = fut
               /\ stats' = AddBatch(stats, Result(fut[b]).val)]_vars
  /\ [][\A b \in Batches :
          Ends(b) =>
            /\ stats' = stats
            /\ order' = order
            /\ \A c \in Batches \ {b} : fut'[c] = fut[c]]_vars
  /\ [](spc # "idle" =>
          /\ stats["time"] = InitialStats["time"]
          /\ \A key \in CounterKeys : stats[key] = SumOver(Added, key))

\* the loop has added the counts of one batch while another task is running
C18_Witness ==
  /\ spc = "loop"
  /\ Len(order) = 1
  /\ Added # {}
  /\ stats["total"] > 0
  /\ InFlight # {}

(***************************************************************************)
(* The claims about the monitor.                                           *)
(***************************************************************************)
\* the call of get_market_stats of thread t ends in this step, and not with
\* a snapshot
FailsCycle(t) == mpc[t] = "fetch" /\ mpc'[t] # "fetch" /\ ~Truthy(mstats'[t])

HistoryUnchanged == store' = store /\ time_labels' = time_labels /\ data' = data

\* C19: a failed cycle never ends polling.  When get_market_stats returns
\* None, or raises, in a cycle of a monitor_loop thread, that step saves
\* nothing to the store and appends nothing to time_labels and data, posts a
\* failure status, and leaves the thread at the wait of its loop; the wait
\* ends without touching the store or the history, and the thread is back at
\* the test of its loop, which begins the next cycle as long as is_running
\* holds.
C19_FailedCycleGoesOn ==
  /\ [][\A t \in Threads :
          FailsCycle(t) =>
            /\ HistoryUnchanged
            /\ status_var' \in {"failed: no response", "error"}
            /\ mpc'[t] = "sleep"]_vars
  /\ [][\A t \in Threads :
          (mpc[t] = "sleep" /\ mpc'[t] # "sleep") =>
            /\ HistoryUnchanged
            /\ mpc'[t] = "test"]_vars
  /\ [][\A t \in Threads :
          (mpc[t] = "test" /\ is_running /\ mpc'[t] # "test") => mpc'[t] = "fetch"]_vars
  /\ [](\A t \in Threads :
          /\ mpc[t] = "sleep" => ENABLED Wake(t)
          /\ (mpc[t] = "test" /\ is_running /\ mcycles < MaxCycles) => ENABLED LoopTest(t))

\* the first cycle of the only thread failed, so that nothing is in the
\* store or in the history, and the thread is in its second cycle
C19_Witness ==
  /\ mpc[1] = "fetch"
  /\ mnow[1] = 2
  /\ \A t \in Threads \ {1} : mpc[t] = "unborn"
  /\ is_running
  /\ store = << >>
  /\ time_labels = << >>

\* the monitor_loop threads that have been started and have not ended
Alive == {t \in Threads : mpc[t] \notin {"unborn", "exited"}}

\* C20: snapshot production is serialized: whatever toggle_monitor calls were
\* made, and whenever, at most one monitor_loop thread is alive, so that
\* never two threads are in get_market_stats at once, nor two in save_stats
\* between its read and its write of the file.
C20_OneLoopThread ==
  /\ Cardinality(Alive) <= 1
  /\ Cardinality({t \in Threads : mpc[t] = "fetch"}) <= 1
  /\ Cardinality({t \in Threads : mpc[t] \in {"read", "write"}}) <= 1

(***************************************************************************)
(* The claims about the counters as a whole.                               *)
(***************************************************************************)
\* the counters of d add up and are nested
Consistent(d) ==
  /\ d["total"] = d["up_count"] + d["down_count"] + d["flat_count"]
  /\ d["limit_up"] <= d["up_5pct"]
  /\ d["up_5pct"] <= d["up_3pct"]
  /\ d["up_3pct"] <= d["up_count"]
  /\ d["limit_down"] <= d["down_5pct"]
  /\ d["down_5pct"] <= d["down_3pct"]
  /\ d["down_3pct"] <= d["down_count"]
  /\ \A key \in CounterKeys : d[key] >= 0

\* C21: in every dict of counters _parse_and_count returns, and holds on the
\* way, and in every dict _get_all_stocks_stats accumulates and returns, and
\* in every snapshot made of it, total = up_count + down_count + flat_count,
\* limit_up <= up_5pct <= up_3pct <= up_count, limit_down <= down_5pct <=
\* down_3pct <= down_count, and no counter is negative.
C21_CountersConsistent ==
  /\ Consistent(pstats)
  /\ ppc = "done" => Consistent(presult)
  /\ \A b \in Batches :
       (fut[b].st = "done" /\ Truthy(Result(fut[b]).val)) => Consistent(Result(fut[b]).val.d)
  /\ Consistent(stats)
  /\ (future_stats.st = "done" /\ Truthy(Result(future_stats).val))
       => Consistent(Result(future_stats).val.d)
  /\ (gpc = "done" /\ Truthy(gout.val)) => Consistent(gout.val.d)

\* a snapshot summed from batches of different counts, with a record at the
\* upper limit, one at the lower limit and a flat one
C21_Witness ==
  /\ ReturnedSnapshot
  /\ \E b, c \in Batches : Result(fut[b]).val # Result(fut[c]).val
  /\ gout.val.d["limit_up"] >= 1
  /\ gout.val.d["limit_down"] >= 1
  /\ gout.val.d["flat_count"] >= 1
  /\ gout.val.d["total"] >= 4

(***************************************************************************)
(* C22: after any sequence of load_today_data and successful               *)
(* fetch_and_save cycles every series of data has the length of            *)
(* time_labels, and that length is at most 100.                            *)
(***************************************************************************)
Aligned(keys) == \A k \in keys : Len(data[k]) = Len(time_labels)

Bounded == Len(time_labels) <= MaxPoints

\* C22: every series of data (sh_index, sh_amount and the eight count
\* series) is as long as time_labels, and time_labels holds at most
\* max_points entries
C22_HistoryAligned == Aligned(DataKeys) /\ Bounded

(***************************************************************************)
(* C23: once toggle_monitor has set is_running to false and it is not      *)
(* started again, the monitor_loop thread finishes the cycle or wait it is *)
(* in, starts no new cycle and eventually exits; at most one further       *)
(* snapshot is saved after the stop.                                       *)
(***************************************************************************)
\* the threads inside a cycle that have not yet written their snapshot
Saving == {t \in Threads : mpc[t] \in {"fetch", "read", "write"}}

\* while stopped, every thread alive ends, unless monitoring is started again
ShutdownExits == (~is_running) ~> (is_running \/ Alive = {})

\* while stopped, no cycle begins
NoNewCycle == [][(~is_running) => mcycles' = mcycles]_vars

\* while stopped, at most one thread can still save a snapshot
OneFurtherSnapshot == [](~is_running => Cardinality(Saving) <= 1)

\* C23: after a stop that no start follows, no new cycle begins, every
\* monitor_loop thread ends, and at most one further snapshot is saved
C23_CooperativeShutdown == NoNewCycle /\ OneFurtherSnapshot /\ ShutdownExits

=============================================================================
